---- MODULE Spec2Model ----
(***************************************************************************)
(* Model of the Snake game core (c_src/snake_core.c, c_src/snake_core.h).  *)
(* The GameState struct is the record `game`; every public function of the *)
(* core is an operator from a GameState (and its inputs) to the GameState  *)
(* it leaves behind, and every call the host can make is one action.       *)
(* `call` records the last call made: its name, argument, return value and *)
(* what happened inside it.                                                *)
(***************************************************************************)
EXTENDS Integers, Sequences, FiniteSets, TLC

VARIABLES game, call

vars == <<game, call>>

---------------------------------------------------------------------------
(* Constants of snake_core.h.  MAX_SNAKE_LENGTH is 100 in the header and   *)
(* MAX_ATTEMPTS is 100 in spawn_food; both are scaled down here so that    *)
(* the cap and the fallback scan are reached on the small grids explored.  *)

MAX_SNAKE_LENGTH == 5

INITIAL_SNAKE_LENGTH == 3

MAX_ATTEMPTS == 2

DefaultFoodValue == 10

UP == 0

RIGHT == 1

DOWN == 2

LEFT == 3

Direction == {UP, RIGHT, DOWN, LEFT}

(* Bounds of the exploration: the grids initialize_game is called with     *)
(* (<<width, height>>), and no food is eaten once the score would pass     *)
(* MaxScore.                                                               *)

Grids == {<<4, 1>>, <<4, 2>>, <<5, 1>>}

MaxScore == 30

(* The most set_direction calls the host makes between two updates. *)
MaxTurns == 2

---------------------------------------------------------------------------
(* Points and memory.                                                      *)

Pt(px, py) == [x |-> px, y |-> py]

(* `Point empty = {-1, -1}` of the accessors. *)
Empty == Pt(-1, -1)

(* A snake slot at an index >= snake_length.  It holds what the allocator  *)
(* left there (indeterminate) or what a game before the last reset wrote   *)
(* there (some point of that game); the model does not track which, and a  *)
(* read of such a slot yields any point.  The games played on a struct     *)
(* with stale slots are therefore among the games played on a fresh        *)
(* struct, whose slots the allocator may have filled with the same points. *)
Stale == Pt(-7, -7)

GridPoints(w, h) == {Pt(px, py) : px \in 0..(w - 1), py \in 0..(h - 1)}

(* What an indeterminate slot may hold: any cell of the grid, or a point   *)
(* off the grid (all off-grid points behave alike).                        *)
JunkPoints(w, h) == GridPoints(w, h) \cup {Empty}

(* C's % : the remainder has the sign of the dividend. *)
CMod(a, b) == IF a >= 0 THEN a % b ELSE 0 - ((0 - a) % b)

(* The absent state: a GameState* that is NULL. *)
NULL == [absent |-> TRUE]

(* The struct before initialize_game has run. *)
Blank ==
    [width |-> 0, height |-> 0,
     snake |-> [i \in 0..(MAX_SNAKE_LENGTH - 1) |-> Stale],
     snake_length |-> 0, direction |-> UP,
     food |-> [position |-> Stale, value |-> 0],
     score |-> 0, game_over |-> FALSE]

get_random_past_max(min, max, r) == min + CMod(r, max - min + 2)

(* get_random: rand() yields some non-negative int r. *)
get_random(min, max, r) == min + CMod(r, max - min + 1)

(* The values rand() may yield: enough of them to reach every residue      *)
(* modulo width and modulo height more than once.                          *)
RandValues(g) == 0..(g.width + g.height)

---------------------------------------------------------------------------
(* check_self_collision, is_food_position                                  *)

check_self_collision_skip_neck(g, position) ==
    /\ g # NULL
    /\ \E i \in 2..(g.snake_length - 1) :
           g.snake[i].x = position.x /\ g.snake[i].y = position.y

check_self_collision_skip_tail(g, position) ==
    \E i \in 1..(g.snake_length - 2) :
        g.snake[i].x = position.x /\ g.snake[i].y = position.y

check_self_collision(g, position) ==
    /\ g # NULL
    /\ \E i \in 1..(g.snake_length - 1) :
           g.snake[i].x = position.x /\ g.snake[i].y = position.y

is_food_position(g, position) ==
    /\ g # NULL
    /\ g.food.position.x = position.x /\ g.food.position.y = position.y

---------------------------------------------------------------------------
(* spawn_food                                                              *)

(* The inner loop of both phases: does position overlap a segment? *)
Overlaps_body_only(g, position) ==
    \E i \in 1..(g.snake_length - 1) :
        g.snake[i].x = position.x /\ g.snake[i].y = position.y

Overlaps(g, position) ==
    \E i \in 0..(g.snake_length - 1) :
        g.snake[i].x = position.x /\ g.snake[i].y = position.y

(* Lines 159-160: the positions one attempt may draw. *)
Candidates(g) ==
    {Pt(get_random(0, g.width - 1, rx), get_random(0, g.height - 1, ry)) :
        rx \in RandValues(g), ry \in RandValues(g)}

(* The while loop, over every sequence of draws: an attempt that draws a   *)
(* free position ends the loop; one that draws an occupied position goes   *)
(* on to the next attempt, until MAX_ATTEMPTS attempts have failed.        *)
RECURSIVE RandomAttempts(_, _)
RandomAttempts(g, attempts) ==
    IF attempts >= MAX_ATTEMPTS
    THEN {[valid_position |-> FALSE, position |-> Empty]}
    ELSE {[valid_position |-> TRUE, position |-> p] :
             p \in {c \in Candidates(g) : ~Overlaps(g, c)}}
         \cup (IF \E c \in Candidates(g) : Overlaps(g, c)
                THEN RandomAttempts(g, attempts + 1)
                ELSE {})

(* The fallback: row-major scan from (px, py), y outer, x inner. *)
RECURSIVE ScanGrid(_, _, _)
ScanGrid(g, px, py) ==
    IF py >= g.height THEN [valid_position |-> FALSE, position |-> Empty]
    ELSE IF px >= g.width THEN ScanGrid(g, 0, py + 1)
    ELSE IF ~Overlaps(g, Pt(px, py))
         THEN [valid_position |-> TRUE, position |-> Pt(px, py)]
         ELSE ScanGrid(g, px + 1, py)

PlaceFood_tiered(g, position) ==
    [g EXCEPT !.food = [position |-> position,
                        value |-> DefaultFoodValue + position.x]]

PlaceFood(g, position) ==
    [g EXCEPT !.food = [position |-> position, value |-> DefaultFoodValue]]

SpawnAfter_clears_food(g, try) ==
    LET scan == ScanGrid(g, 0, 0)
    IN  IF try.valid_position
        THEN [game |-> PlaceFood(g, try.position), path |-> "random"]
        ELSE IF scan.valid_position
        THEN [game |-> PlaceFood(g, scan.position), path |-> "scan"]
        ELSE [game |-> [g EXCEPT !.food = [position |-> Empty, value |-> 0]],
              path |-> "none"]

(* One outcome of spawn_food for one outcome of the while loop; path tells *)
(* which branch placed the food.                                           *)
SpawnAfter(g, try) ==
    LET scan == ScanGrid(g, 0, 0)
    IN  IF try.valid_position
        THEN [game |-> PlaceFood(g, try.position), path |-> "random"]
        ELSE IF scan.valid_position
        THEN [game |-> PlaceFood(g, scan.position), path |-> "scan"]
        ELSE [game |-> g, path |-> "none"]

(* Every outcome of spawn_food on g; "absent" is the return on NULL. *)
spawn_food(g) ==
    IF g = NULL THEN {[game |-> NULL, path |-> "absent"]}
    ELSE {SpawnAfter(g, try) : try \in RandomAttempts(g, 0)}

---------------------------------------------------------------------------
(* initialize_game, reset_game: every outcome, as the state left behind    *)
(* and the branch of spawn_food that ended the call.                       *)
(* The loop of lines 38-41 writes slots 0..snake_length-1 only; the slots  *)
(* above them keep their content, which the model stops tracking (Stale).  *)

initialize_game_short(g, width, height) ==
    LET start_x == width \div 2
        start_y == height \div 2
        g1 == [g EXCEPT !.width = width, !.height = height,
                        !.snake_length = INITIAL_SNAKE_LENGTH - 1,
                        !.direction = RIGHT, !.score = 0,
                        !.game_over = FALSE]
        g2 == [g1 EXCEPT !.snake =
                  [i \in DOMAIN g1.snake |->
                      IF i < g1.snake_length THEN Pt(start_x - i, start_y)
                      ELSE Stale]]
    IN  spawn_food(g2)

initialize_game_rightward(g, width, height) ==
    LET start_x == width \div 2
        start_y == height \div 2
        g1 == [g EXCEPT !.width = width, !.height = height,
                        !.snake_length = INITIAL_SNAKE_LENGTH,
                        !.direction = RIGHT, !.score = 0,
                        !.game_over = FALSE]
        g2 == [g1 EXCEPT !.snake =
                  [i \in DOMAIN g1.snake |->
                      IF i < g1.snake_length THEN Pt(start_x + i, start_y)
                      ELSE Stale]]
    IN  spawn_food(g2)

initialize_game(g, width, height) ==
    IF g = NULL THEN {[game |-> NULL, path |-> "absent"]} ELSE
    LET start_x == width \div 2
        start_y == height \div 2
        g1 == [g EXCEPT !.width = width, !.height = height,
                        !.snake_length = INITIAL_SNAKE_LENGTH,
                        !.direction = RIGHT, !.score = 0,
                        !.game_over = FALSE]
        g2 == [g1 EXCEPT !.snake =
                  [i \in DOMAIN g1.snake |->
                      IF i < g1.snake_length THEN Pt(start_x - i, start_y)
                      ELSE Stale]]
    IN  spawn_food(g2)

reset_game_keeps_score(g) ==
    {[s EXCEPT !.game.score = g.score] :
        s \in initialize_game(g, g.width, g.height)}

reset_game(g) ==
    IF g = NULL THEN {[game |-> NULL, path |-> "absent"]}
    ELSE initialize_game(g, g.width, g.height)

---------------------------------------------------------------------------
(* get_new_position                                                        *)

get_new_position_no_wrap_left(current, dir, width, height) ==
    CASE dir = UP    -> [current EXCEPT !.y = CMod(current.y - 1 + height, height)]
      [] dir = RIGHT -> [current EXCEPT !.x = CMod(current.x + 1, width)]
      [] dir = DOWN  -> [current EXCEPT !.y = CMod(current.y + 1, height)]
      [] dir = LEFT  -> [current EXCEPT !.x = CMod(current.x - 1, width)]

get_new_position_no_wrap_right(current, dir, width, height) ==
    CASE dir = UP    -> [current EXCEPT !.y = CMod(current.y - 1 + height, height)]
      [] dir = RIGHT -> [current EXCEPT !.x = current.x + 1]
      [] dir = DOWN  -> [current EXCEPT !.y = CMod(current.y + 1, height)]
      [] dir = LEFT  -> [current EXCEPT !.x = CMod(current.x - 1 + width, width)]

get_new_position(current, dir, width, height) ==
    CASE dir = UP    -> [current EXCEPT !.y = CMod(current.y - 1 + height, height)]
      [] dir = RIGHT -> [current EXCEPT !.x = CMod(current.x + 1, width)]
      [] dir = DOWN  -> [current EXCEPT !.y = CMod(current.y + 1, height)]
      [] dir = LEFT  -> [current EXCEPT !.x = CMod(current.x - 1 + width, width)]

---------------------------------------------------------------------------
(* set_direction                                                           *)

set_direction_vertical_only(g, new_direction) ==
    IF \/ (g.direction = UP /\ new_direction = DOWN)
       \/ (g.direction = DOWN /\ new_direction = UP)
    THEN g
    ELSE [g EXCEPT !.direction = new_direction]

set_direction(g, new_direction) ==
    IF g = NULL THEN g ELSE
    IF \/ (g.direction = UP /\ new_direction = DOWN)
       \/ (g.direction = DOWN /\ new_direction = UP)
       \/ (g.direction = LEFT /\ new_direction = RIGHT)
       \/ (g.direction = RIGHT /\ new_direction = LEFT)
    THEN g
    ELSE [g EXCEPT !.direction = new_direction]

---------------------------------------------------------------------------
(* update_game                                                             *)

(* Lines 92-94: the length after eating. *)
GrownLength(g) ==
    IF g.snake_length < MAX_SNAKE_LENGTH THEN g.snake_length + 1
    ELSE g.snake_length

(* Line 95: the score after eating. *)
ScoreAfterEating_lost_at_cap(g) ==
    IF g.snake_length < MAX_SNAKE_LENGTH THEN g.score + g.food.value
    ELSE g.score

ScoreAfterEating_half(g) == g.score + (g.food.value \div 2)

ScoreAfterEating(g) == g.score + g.food.value

(* Lines 91-97: the eaten_food branch.  snake_length grows before          *)
(* spawn_food runs, so spawn_food also reads the slot the shift has not    *)
(* filled yet, which holds any point.                                      *)
EatFood(g) ==
    LET n == g.snake_length
        grown == GrownLength(g)
        g1 == [g EXCEPT !.snake_length = grown, !.score = ScoreAfterEating(g)]
        mem == IF grown > n /\ n \in DOMAIN g.snake /\ g.snake[n] = Stale
               THEN {[g1 EXCEPT !.snake[n] = junk] :
                        junk \in JunkPoints(g.width, g.height)}
               ELSE {g1}
    IN  UNION {spawn_food(m) : m \in mem}

MoveBody_head_only(g, new_head) == [g EXCEPT !.snake[0] = new_head]

(* Lines 99-105: shift the body from tail to head, then write the head. *)
MoveBody(g, new_head) ==
    [g EXCEPT !.snake =
        [i \in DOMAIN g.snake |->
            IF i = 0 THEN new_head
            ELSE IF i <= g.snake_length - 1 THEN g.snake[i - 1]
            ELSE g.snake[i]]]

UpdResult(g, ret, ate, path) ==
    [game |-> g, ret |-> ret, ate |-> ate, path |-> path]

(* Lines 81-107: a tick of a game that is not over. *)
Tick(g) ==
    LET new_head == get_new_position(g.snake[0], g.direction, g.width, g.height)
        eaten_food == is_food_position(g, new_head)
    IN  IF check_self_collision(g, new_head)
        THEN {UpdResult([g EXCEPT !.game_over = TRUE], TRUE, FALSE, "no")}
        ELSE IF eaten_food
        THEN {UpdResult(MoveBody(s.game, new_head), TRUE, TRUE, s.path) :
                 s \in EatFood(g)}
        ELSE {UpdResult(MoveBody(g, new_head), TRUE, FALSE, "no")}

update_game_no_guard(g) == Tick(g)

(* Every outcome of update_game on g. *)
update_game(g) ==
    IF g = NULL THEN {UpdResult(g, FALSE, FALSE, "absent")}
    ELSE IF g.game_over THEN {UpdResult(g, FALSE, FALSE, "no")}
    ELSE Tick(g)

---------------------------------------------------------------------------
(* The accessors.                                                          *)

get_snake_segment_off_by_one(g, index) ==
    IF g = NULL \/ index < 0 \/ index > g.snake_length THEN Empty
    ELSE g.snake[index]

get_snake_segment(g, index) ==
    IF g = NULL \/ index < 0 \/ index >= g.snake_length THEN Empty
    ELSE g.snake[index]

get_food_position(g) == IF g = NULL THEN Empty ELSE g.food.position

get_score(g) == IF g = NULL THEN 0 ELSE g.score

is_game_over_false_on_null(g) == IF g = NULL THEN FALSE ELSE g.game_over

is_game_over(g) == IF g = NULL THEN TRUE ELSE g.game_over

---------------------------------------------------------------------------
(* The host: initialize once, then any sequence of calls.  call.path is    *)
(* "no" when the call did not run spawn_food, "absent" when it returned at *)
(* its NULL check, and otherwise the branch of spawn_food that ended it.   *)

CallRec(op, arg, ret, ate, path) ==
    [op |-> op, arg |-> arg, ret |-> ret, ate |-> ate, path |-> path]

Init ==
    \E wh \in Grids :
        \E s \in initialize_game(Blank, wh[1], wh[2]) :
            /\ game = s.game
            /\ call = CallRec("initialize", 0, TRUE, FALSE, s.path)

Update ==
    \E r \in update_game(game) :
        /\ r.game.score <= MaxScore
        /\ game' = r.game
        /\ call' = CallRec("update", 0, r.ret, r.ate, r.path)

SetDirection ==
    \E d \in Direction :
        /\ game' = set_direction(game, d)
        /\ call' = CallRec("set_direction", d, TRUE, FALSE, "no")

Reset ==
    \E s \in reset_game(game) :
        /\ game' = s.game
        /\ call' = CallRec("reset", 0, TRUE, FALSE, s.path)

Next == Update \/ SetDirection \/ Reset

Spec == Init /\ [][Next]_vars

---------------------------------------------------------------------------
(* The host that also reads segments and passes NULL: on the 4x1           *)
(* grid, every public function may be called with an absent state (which   *)
(* leaves the host's struct alone), and get_snake_segment with any index   *)
(* from -1 to MAX_SNAKE_LENGTH.  A void function is recorded as returning  *)
(* TRUE.                                                                   *)

InitApi == Init /\ game.width = 4 /\ game.height = 1

Absent(op, arg, ret) ==
    /\ game' = game
    /\ call' = CallRec(op, arg, ret, FALSE, "absent")

NullMutator ==
    \/ \E s \in initialize_game(NULL, game.width, game.height) :
           s.game = NULL /\ Absent("initialize", 0, TRUE)
    \/ \E d \in Direction :
           set_direction(NULL, d) = NULL /\ Absent("set_direction", d, TRUE)
    \/ \E s \in spawn_food(NULL) :
           s.game = NULL /\ Absent("spawn_food", 0, TRUE)
    \/ \E s \in reset_game(NULL) :
           s.game = NULL /\ Absent("reset", 0, TRUE)

NullQuery ==
    \/ \E r \in update_game(NULL) :
           r.game = NULL /\ Absent("update", 0, r.ret)
    \/ \E p \in JunkPoints(game.width, game.height) :
           \/ Absent("check_self_collision", 0, check_self_collision(NULL, p))
           \/ Absent("is_food_position", 0, is_food_position(NULL, p))
    \/ \E index \in -1..MAX_SNAKE_LENGTH :
           Absent("get_snake_segment", index, get_snake_segment(NULL, index))
    \/ Absent("get_food_position", 0, get_food_position(NULL))
    \/ Absent("get_score", 0, get_score(NULL))
    \/ Absent("is_game_over", 0, is_game_over(NULL))

GetSnakeSegment ==
    \E index \in -1..MAX_SNAKE_LENGTH :
        /\ game' = game
        /\ call' = CallRec("get_snake_segment", index,
                           get_snake_segment(game, index), FALSE, "no")

NextApi == Next \/ NullMutator \/ NullQuery \/ GetSnakeSegment

SpecApi == InitApi /\ [][NextApi]_vars

---------------------------------------------------------------------------
(* Vocabulary of the properties.                                           *)

Live(g) == 0..(g.snake_length - 1)

(* The last call was an update that returned true without ending the game. *)
Moved == call.op = "update" /\ call.ret /\ ~game.game_over

(* The head update_game computes from g. *)
NewHead(g) == get_new_position(g.snake[0], g.direction, g.width, g.height)

(* p is the position a body segment (index 1..snake_length-1) of g holds. *)
HitsBody(g, p) == \E i \in 1..(g.snake_length - 1) : g.snake[i] = p

(* One cell from p in direction dir on the torus, stated case by case. *)
Torus(p, dir, w, h) ==
    CASE dir = RIGHT -> Pt(IF p.x = w - 1 THEN 0 ELSE p.x + 1, p.y)
      [] dir = LEFT  -> Pt(IF p.x = 0 THEN w - 1 ELSE p.x - 1, p.y)
      [] dir = DOWN  -> Pt(p.x, IF p.y = h - 1 THEN 0 ELSE p.y + 1)
      [] dir = UP    -> Pt(p.x, IF p.y = 0 THEN h - 1 ELSE p.y - 1)

(* a and b are exact opposites: Up/Down or Left/Right. *)
Opposite(a, b) == {a, b} = {UP, DOWN} \/ {a, b} = {LEFT, RIGHT}

(* The step is an update that moves the head onto the food cell. *)
EatsNow ==
    /\ call'.op = "update"
    /\ ~game.game_over
    /\ ~HitsBody(game, NewHead(game))
    /\ NewHead(game) = game.food.position

---------------------------------------------------------------------------
(* C1: after every update that returns true without setting game_over, the *)
(* food position differs from the position of every snake segment at       *)
(* indices 0..snake_length-1, head included, also on the tick in which the *)
(* food was eaten and a new food spawned.                                  *)
C1_FoodOffSnake ==
    Moved => \A i \in Live(game) : game.snake[i] # game.food.position

(* C2: after every update that returns true without setting game_over, no  *)
(* two snake segments at indices 0..snake_length-1 occupy the same cell    *)
(* (width >= 4, height >= 1).                                              *)
C2_SegmentsDistinct ==
    Moved => \A i, j \in Live(game) : i # j => game.snake[i] # game.snake[j]

(* C3: in every reachable state every segment at an index in               *)
(* [0, snake_length) has 0 <= x < width and 0 <= y < height, including the *)
(* segment added on a growth tick.                                         *)
C3_SegmentsInGrid ==
    \A i \in Live(game) :
        /\ 0 <= game.snake[i].x /\ game.snake[i].x < game.width
        /\ 0 <= game.snake[i].y /\ game.snake[i].y < game.height

C3_Witness ==
    /\ call.op = "update" /\ call.ate
    /\ game.snake_length = INITIAL_SNAKE_LENGTH + 1

(* C4: INITIAL_SNAKE_LENGTH <= snake_length <= MAX_SNAKE_LENGTH in every   *)
(* reachable state, and snake_length never decreases except through reset  *)
(* (or initialize).                                                        *)
C4_LengthRange ==
    /\ [](game.snake_length \in INITIAL_SNAKE_LENGTH..MAX_SNAKE_LENGTH)
    /\ [][game'.snake_length < game.snake_length
             => call'.op \in {"reset", "initialize"}]_vars

C4_Witness ==
    call.op = "update" /\ call.ate /\ game.snake_length = MAX_SNAKE_LENGTH

(* C5: once game_over is true every update returns false and leaves the    *)
(* whole state unchanged (until reset), and update returns false only when *)
(* game_over was already true at the call.                                 *)
C5_GameOverAbsorbing ==
    [][call'.op = "update"
          => /\ game.game_over => (call'.ret = FALSE /\ game' = game)
             /\ call'.ret = FALSE => game.game_over]_vars

C5_Witness == call.op = "update" /\ call.ret = FALSE /\ game.game_over

(* C6: when the game is not over and the new head equals the position a    *)
(* body segment at index 1..snake_length-1 held at the start of the tick   *)
(* (the tail included), update sets game_over, returns true and leaves the *)
(* segments, snake_length, food and score unchanged; when it equals no     *)
(* such segment, update does not set game_over.                            *)
C6_SelfCollision ==
    [][(call'.op = "update" /\ ~game.game_over)
          => IF HitsBody(game, NewHead(game))
             THEN /\ game' = [game EXCEPT !.game_over = TRUE]
                  /\ call'.ret = TRUE
             ELSE ~game'.game_over]_vars

(* The game ended on the tail cell. *)
C6_Witness ==
    /\ call.op = "update" /\ call.ret /\ game.game_over
    /\ NewHead(game) = game.snake[game.snake_length - 1]

(* C7: set_direction(d) leaves direction unchanged when d is the exact     *)
(* opposite of the current direction and otherwise sets it to d, game over *)
(* or not, and changes nothing else; while direction is Right,             *)
(* set_direction(Right) then set_direction(Left) leave it Right.           *)
C7_SetDirection ==
    /\ [][call'.op = "set_direction"
             => game' = [game EXCEPT !.direction =
                            IF Opposite(call'.arg, game.direction)
                            THEN game.direction ELSE call'.arg]]_vars
    /\ [][(/\ call.op = "set_direction" /\ call.arg = RIGHT
           /\ game.direction = RIGHT
           /\ call'.op = "set_direction" /\ call'.arg = LEFT)
             => game'.direction = RIGHT]_vars

(* An opposite request was rejected after the game had ended. *)
C7_Witness ==
    /\ call.op = "set_direction"
    /\ Opposite(call.arg, game.direction)
    /\ game.game_over

(* C8: on every update that moves the snake the new head is the old head   *)
(* moved one cell in the current direction on the torus, and an update     *)
(* ends the game only on a body cell, never for reaching a grid edge.      *)
C8_TorusMove ==
    [][call'.op = "update" /\ ~game.game_over
          => LET t == Torus(game.snake[0], game.direction,
                            game.width, game.height)
             IN  /\ ~game'.game_over => game'.snake[0] = t
                 /\ game'.game_over => HitsBody(game, t)]_vars

(* The head has just wrapped from x = width - 1 to x = 0. *)
C8_Witness ==
    /\ Moved
    /\ game.snake[0].x = 0
    /\ game.snake[1].x = game.width - 1

C10_ScoreSteps ==
    [][call'.op \in {"update", "set_direction"}
          => game'.score =
                IF EatsNow THEN game.score + DefaultFoodValue
                ELSE game.score]_vars

C10_Witness ==
    /\ call.op = "update" /\ call.ate
    /\ game.score = 2 * DefaultFoodValue

(* The state initialize(w, h) is specified to leave, the food apart: three *)
(* segments leftward from the centre, heading right, no score, not over.   *)
FreshStart(g, w, h) ==
    /\ g.width = w /\ g.height = h
    /\ g.snake_length = INITIAL_SNAKE_LENGTH
    /\ \A i \in 0..(INITIAL_SNAKE_LENGTH - 1) :
           g.snake[i] = Pt((w \div 2) - i, h \div 2)
    /\ g.direction = RIGHT
    /\ g.score = 0
    /\ g.game_over = FALSE

(* The food of g lies on a cell of the grid that no live segment holds and *)
(* is worth 10.                                                            *)
FoodPlaced(g) ==
    /\ g.food.position \in GridPoints(g.width, g.height)
    /\ \A i \in Live(g) : g.snake[i] # g.food.position
    /\ g.food.value = DefaultFoodValue

(* Every state initialize_game leaves on a fresh struct, for every grid. *)
InitialStates ==
    UNION {{s.game : s \in initialize_game(Blank, wh[1], wh[2])} : wh \in Grids}

(* C11: reset, called in any reachable state, yields a state that          *)
(* initialize with the current width and height could yield: width and     *)
(* height preserved, snake_length 3, score 0, game_over false, direction   *)
(* Right, the snake at its centred start, and a fresh food spawned.        *)
C11_ResetIsInitialize ==
    [][call'.op = "reset"
          => /\ FreshStart(game', game.width, game.height)
             /\ call'.path \in {"random", "scan"}
             /\ FoodPlaced(game')
             /\ game' \in InitialStates]_vars

C11_Witness ==
    /\ call.op = "reset"
    /\ FreshStart(game, game.width, game.height)
    /\ call.path = "scan"

(* C12: after initialize(width, height): snake_length = 3, segment i at    *)
(* (width/2 - i, height/2), direction Right, score 0, game_over false, and *)
(* one food of value 10 on an in-grid cell that no segment occupies.       *)
C12_Initialize ==
    call.op = "initialize"
        => /\ \E wh \in Grids : FreshStart(game, wh[1], wh[2])
           /\ FoodPlaced(game)

C12_Witness ==
    /\ call.op = "initialize"
    /\ game.width = 5
    /\ game.snake[2] = Pt(0, 0)

---------------------------------------------------------------------------
(* The host that also calls spawn_food itself, on every grid.              *)

SpawnFood ==
    \E s \in spawn_food(game) :
        /\ game' = s.game
        /\ call' = CallRec("spawn_food", 0, TRUE, FALSE, s.path)

NextSpawn == Next \/ SpawnFood

SpecSpawn == Init /\ [][NextSpawn]_vars

---------------------------------------------------------------------------
(* The host as a game loop: each step makes up to MaxTurns set_direction   *)
(* calls and then one update_game call, or resets.  After such a step      *)
(* game.direction is the direction that update used.                       *)

(* The states that at most n set_direction calls can make of g. *)
RECURSIVE Turned(_, _)
Turned(g, n) ==
    IF n = 0 THEN {g}
    ELSE LET before == Turned(g, n - 1)
         IN  before \cup {set_direction(p, d) : p \in before, d \in Direction}

TurnAndUpdate ==
    \E g \in Turned(game, MaxTurns) :
        \E r \in update_game(g) :
            /\ r.game.score <= MaxScore
            /\ game' = r.game
            /\ call' = CallRec("update", 0, r.ret, r.ate, r.path)

NextLoop == TurnAndUpdate \/ Reset

SpecLoop == Init /\ [][NextLoop]_vars

(* What the specification promises of a call on an absent state: TRUE for  *)
(* a void function (it returned), false for a boolean function, 0 for      *)
(* get_score, (-1,-1) for a point.                                         *)
SafeDefault(op) ==
    CASE op \in {"initialize", "set_direction", "spawn_food", "reset"} -> TRUE
      [] op \in {"update", "check_self_collision", "is_food_position",
                 "is_game_over"} -> FALSE
      [] op = "get_score" -> 0
      [] op \in {"get_snake_segment", "get_food_position"} -> Empty

(* C13 as stated: every public operation called with an absent state is a  *)
(* no-op that returns the safe default, false for every boolean-returning  *)
(* operation, is_game_over included.                                       *)
C13_NullSafeDefault ==
    [][call'.path = "absent"
          => game' = game /\ call'.ret = SafeDefault(call'.op)]_vars

(* C13 as amended: the same, except that is_game_over returns true on an   *)
(* absent state.                                                           *)
C13_NullReturns ==
    [][call'.path = "absent"
          => /\ game' = game
             /\ call'.ret = IF call'.op = "is_game_over" THEN TRUE
                            ELSE SafeDefault(call'.op)]_vars

C13_Witness ==
    call.path = "absent" /\ call.op = "is_game_over" /\ call.ret = TRUE

(* C14: get_snake_segment(index) returns (-1,-1) for every index < 0 and   *)
(* every index >= snake_length (also below MAX_SNAKE_LENGTH, where slots   *)
(* hold stale segments), the position of segment index for every index in *)
(* [0, snake_length), and changes no state.                                *)
C14_GetSnakeSegment ==
    [][call'.op = "get_snake_segment" /\ call'.path = "no"
          => /\ game' = game
             /\ call'.ret = IF call'.arg \in Live(game)
                            THEN game.snake[call'.arg] ELSE Empty]_vars

(* An index between snake_length and MAX_SNAKE_LENGTH was asked for, where  *)
(* the array holds a slot that is not a segment.                           *)
C14_Witness ==
    /\ call.op = "get_snake_segment" /\ call.path = "no"
    /\ call.arg >= game.snake_length /\ call.arg < MAX_SNAKE_LENGTH
    /\ call.ret = Empty

(* The grid cells no segment at an index in [0, snake_length) occupies,    *)
(* and the first of them in row-major order.                               *)
FreeCells(g) ==
    {p \in GridPoints(g.width, g.height) : \A i \in Live(g) : g.snake[i] # p}

RowMajorBefore(p, q) == p.y < q.y \/ (p.y = q.y /\ p.x < q.x)

FirstFree(g) ==
    CHOOSE p \in FreeCells(g) : \A q \in FreeCells(g) \ {p} : RowMajorBefore(p, q)

(* C15: spawn_food, called on a state with at least one cell free of       *)
(* segments, ends with the food on an in-grid cell none of the segments    *)
(* occupies and with value 10, whatever the draws; when every random       *)
(* attempt hit an occupied cell, the cell is the first free one in         *)
(* row-major order.  Nothing but the food changes.                         *)
C15_SpawnFood ==
    [][call'.op = "spawn_food" /\ FreeCells(game) # {}
          => /\ game'.food.position \in FreeCells(game)
             /\ game'.food.value = DefaultFoodValue
             /\ call'.path \in {"random", "scan"}
             /\ call'.path = "scan" => game'.food.position = FirstFree(game)
             /\ game' = [game EXCEPT !.food = game'.food]]_vars

(* The scan ran on a two-row grid with (0,0) under the head, where         *)
(* row-major and column-major order pick different cells.                  *)
C15_Witness ==
    /\ call.op = "spawn_food" /\ call.path = "scan"
    /\ game.height = 2
    /\ game.snake[0] = Pt(0, 0)
    /\ game.food.position = Pt(1, 0)
    /\ \A i \in Live(game) : game.snake[i] # Pt(0, 1)

(* C17: spawn_food, called on a state in which every grid cell is occupied *)
(* by a segment, returns and leaves the food position and the food value   *)
(* as they were.                                                           *)
C17_FullBoard ==
    [][call'.op = "spawn_food" /\ FreeCells(game) = {}
          => /\ call'.path = "none"
             /\ game'.food = game.food
             /\ game' = game]_vars

C17_Witness ==
    /\ call.op = "spawn_food" /\ call.path = "none"
    /\ FreeCells(game) = {}
    /\ game.food.value = DefaultFoodValue

(* The step is an update that moves the snake: the game is not over and   *)
(* the new head is on no body segment.                                     *)
MovesNow ==
    /\ call'.op = "update"
    /\ ~game.game_over
    /\ ~HitsBody(game, NewHead(game))

(* initialize(10, 10), set_direction(Up), update, over every outcome: the  *)
(* first three segments are (5,4), (5,5), (4,5).                           *)
Example10x10 ==
    \A s \in initialize_game(Blank, 10, 10) :
        \A r \in update_game(set_direction(s.game, UP)) :
            /\ r.ret
            /\ r.game.snake[0] = Pt(5, 4)
            /\ r.game.snake[1] = Pt(5, 5)
            /\ r.game.snake[2] = Pt(4, 5)

(* C16: on an update that moves the snake, with old segments s[0..n-1] and *)
(* new head h: if h is not the food cell or n = MAX_SNAKE_LENGTH, the new  *)
(* snake is h, s[0], ..., s[n-2]; if h is the food cell and                *)
(* n < MAX_SNAKE_LENGTH, it is h, s[0], ..., s[n-1].  After                *)
(* initialize(10, 10), set_direction(Up), update, the first three segments *)
(* are (5,4), (5,5), (4,5).                                                *)
C16_BodyShift ==
    [][/\ Example10x10
       /\ MovesNow =>
            LET n == game.snake_length
                h == NewHead(game)
                grows == h = game.food.position /\ n < MAX_SNAKE_LENGTH
            IN  /\ game'.snake_length = IF grows THEN n + 1 ELSE n
                /\ game'.snake[0] = h
                /\ \A i \in 1..(game'.snake_length - 1) :
                       game'.snake[i] = game.snake[i - 1]]_vars

(* The snake grew to four segments on a vertical move. *)
C16_Witness ==
    /\ Moved /\ call.ate
    /\ game.snake_length = INITIAL_SNAKE_LENGTH + 1
    /\ game.snake[0].y # game.snake[1].y
    /\ game.snake[1].y = game.snake[3].y

(* C18: of two consecutive updates that both move the snake, with any      *)
(* number of set_direction calls between them, the second never moves the  *)
(* head in the exact opposite of the direction of the first.               *)
C18_NoReversal ==
    [][(/\ Moved
        /\ call'.op = "update" /\ call'.ret /\ ~game'.game_over)
          => ~Opposite(game.direction, game'.direction)]_vars

(* An update moved the head right, set_direction turned the heading, and   *)
(* the next update moved the head up, on a grid of two rows.               *)
C18_Witness ==
    /\ Moved
    /\ game.height = 2
    /\ game.direction = UP
    /\ game.snake[0] = Torus(game.snake[1], UP, game.width, game.height)
    /\ game.snake[1] = Torus(game.snake[2], RIGHT, game.width, game.height)
    /\ game.snake[2] = Torus(game.snake[3], RIGHT, game.width, game.height)
    /\ game.snake_length = INITIAL_SNAKE_LENGTH + 1

(* C19: in every state reachable by set_direction, update and reset calls, *)
(* score >= 10 * (snake_length - INITIAL_SNAKE_LENGTH), with equality      *)
(* whenever snake_length < MAX_SNAKE_LENGTH, and the score is a            *)
(* non-negative multiple of 10.                                            *)
C19_ScoreAndLength ==
    /\ game.score >= 10 * (game.snake_length - INITIAL_SNAKE_LENGTH)
    /\ game.snake_length < MAX_SNAKE_LENGTH
          => game.score = 10 * (game.snake_length - INITIAL_SNAKE_LENGTH)
    /\ game.score >= 0
    /\ game.score % 10 = 0

(* The snake ate at full length: the score is ahead of the length. *)
C19_Witness ==
    /\ game.snake_length = MAX_SNAKE_LENGTH
    /\ game.score = 10 * (MAX_SNAKE_LENGTH - INITIAL_SNAKE_LENGTH) + 10
    /\ ~game.game_over

(* C20: in every state reachable by set_direction, update and reset calls, *)
(* the food position is inside the grid and the food value is 10, so       *)
(* get_food_position returns an in-grid point for a present state.         *)
C20_FoodInGrid ==
    /\ game.food.position.x >= 0 /\ game.food.position.x < game.width
    /\ game.food.position.y >= 0 /\ game.food.position.y < game.height
    /\ game.food.value = 10
    /\ get_food_position(game) \in GridPoints(game.width, game.height)

(* The food is at the far corner of a two-row grid after the snake ate. *)
C20_Witness ==
    /\ call.op = "update" /\ call.ate
    /\ game.height = 2
    /\ get_food_position(game) = Pt(game.width - 1, game.height - 1)

====
